---- MODULE Spec2Model ----
(***************************************************************************)
(* Knowledge-base loader and answer pipeline of src/rag_engine.py.         *)
(*                                                                         *)
(* Shared module state: db, is_loading, gemini_client.  Loader threads     *)
(* (load_vectorstore, one per start_loading_vectorstore call) interleave   *)
(* with get_answer calls at every read or write of that shared state.      *)
(* Text is a sequence of one-character strings, so that lower(), strip(),  *)
(* startswith() and `in` are computed as Python computes them.             *)
(*                                                                         *)
(* The loader reads the two blobs of the Supabase bucket into the two      *)
(* files of LOCAL_PATH (supabase_manager.py).  Spec follows the serving    *)
(* process over a bucket nobody writes; IngestSpec follows the loader      *)
(* while rag_ingest.ingest_website uploads a new vector store;             *)
(* RetrievalSpec follows get_answer with every similarity search of a      *)
(* comprehensive retrieval as a step of its own.                           *)
(*                                                                         *)
(* The other modules have their own state and specification:               *)
(* DatabaseSpec (database.py: init_database, and the health check of       *)
(* main.py), ChatSpec (chat.py: get_bot_response and its histories),       *)
(* CrawlSpec (the crawl loops of scraper.py and rag_ingest.py).            *)
(***************************************************************************)
EXTENDS Integers, Sequences, FiniteSets, TLC

\* ----------------------------------------------------------------- bounds
\* Number of start_loading_vectorstore calls (threads) the model follows.
MaxLoads == 2

None == "None"
\* db = None (no index object): index ids are the thread ids 1..MaxLoads
NoIndex == 0
\* the slot of a thread that has not deserialised an index yet
NoObject == [unset |-> TRUE]

\* ------------------------------------------------------------ text helpers
UpperChars ==
    << "A","B","C","D","E","F","G","H","I","J","K","L","M",
       "N","O","P","Q","R","S","T","U","V","W","X","Y","Z" >>
LowerChars ==
    << "a","b","c","d","e","f","g","h","i","j","k","l","m",
       "n","o","p","q","r","s","t","u","v","w","x","y","z" >>

\* str.lower() on one character
LowerChar(c) ==
    IF \E i \in 1..26 : UpperChars[i] = c
    THEN LowerChars[CHOOSE i \in 1..26 : UpperChars[i] = c]
    ELSE c

\* str.lower()
lower(s) == [i \in 1..Len(s) |-> LowerChar(s[i])]

Whitespace == {" ", "\t", "\n", "\r"}

\* str.strip(): drop leading and trailing whitespace
strip(s) ==
    LET keep == {i \in 1..Len(s) : s[i] \notin Whitespace}
    IN  IF keep = {} THEN <<>>
        ELSE LET lo == CHOOSE i \in keep : \A j \in keep : i <= j
                 hi == CHOOSE i \in keep : \A j \in keep : i >= j
             IN  SubSeq(s, lo, hi)

\* str.startswith(p)
startswith(s, p) == Len(p) <= Len(s) /\ SubSeq(s, 1, Len(p)) = p

\* Python's `sub in s` on strings
Contains(s, sub) ==
    \E i \in 0..(Len(s) - Len(sub)) : SubSeq(s, i + 1, i + Len(sub)) = sub

\* any(w in s for w in words)
ContainsAny(s, words) == \E i \in 1..Len(words) : Contains(s, words[i])

\* first k elements of a list (s[:k])
Take(s, k) == SubSeq(s, 1, IF Len(s) < k THEN Len(s) ELSE k)


\* ------------------------------------------------------- rag_engine: text
greetings ==
    << <<"h","e","l","l","o">>,
       <<"h","i">>,
       <<"h","e","y">>,
       <<"g","o","o","d"," ","m","o","r","n","i","n","g">>,
       <<"g","o","o","d"," ","a","f","t","e","r","n","o","o","n">>,
       <<"g","o","o","d"," ","e","v","e","n","i","n","g">>,
       <<"g","r","e","e","t","i","n","g","s">>,
       <<"h","o","w","d","y">>,
       <<"h","o","l","a">>,
       <<"n","a","m","a","s","t","e">>,
       <<"h","i"," ","t","h","e","r","e">>,
       <<"h","e","l","l","o"," ","t","h","e","r","e">> >>

\* A variant of is_greeting that takes any text beginning with a greeting.
is_greeting_prefix(question) ==
    LET question_lower == strip(lower(question))
    IN  \E i \in 1..Len(greetings) : startswith(question_lower, greetings[i])

\* is_greeting(question): exact match, or the greeting followed by ' ' or ','
is_greeting(question) ==
    LET question_lower == strip(lower(question))
    IN  \E i \in 1..Len(greetings) :
            \/ question_lower = greetings[i]
            \/ startswith(question_lower, greetings[i] \o <<" ">>)
            \/ startswith(question_lower, greetings[i] \o <<",">>)

network_keywords ==
    << <<"c","o","n","n","e","c","t","i","o","n">>,
       <<"n","e","t","w","o","r","k">>,
       <<"t","i","m","e","o","u","t">>,
       <<"u","n","r","e","a","c","h","a","b","l","e">>,
       <<"d","n","s">>,
       <<"s","o","c","k","e","t">>,
       <<"h","t","t","p">>,
       <<"s","s","l">>,
       <<"c","e","r","t","i","f","i","c","a","t","e">>,
       <<"c","o","n","n","e","c","t","i","o","n"," ","r","e","f","u","s","e","d">>,
       <<"c","o","n","n","e","c","t","i","o","n"," ","r","e","s","e","t">>,
       <<"c","o","n","n","e","c","t","i","o","n"," ","a","b","o","r","t","e","d">>,
       <<"f","a","i","l","e","d"," ","t","o"," ","e","s","t","a","b","l","i","s","h">>,
       <<"n","a","m","e"," ","r","e","s","o","l","u","t","i","o","n">>,
       <<"t","i","m","e","d"," ","o","u","t">> >>

\* is_network_error(error)
is_network_error(error) == ContainsAny(lower(error), network_keywords)

list_indicators ==
    << <<"l","i","s","t">>,
       <<"a","l","l">>,
       <<"w","h","a","t"," ","a","r","e">>,
       <<"s","h","o","w"," ","m","e">>,
       <<"t","e","l","l"," ","m","e"," ","a","b","o","u","t"," ","a","l","l">>,
       <<"s","e","r","v","i","c","e","s">>,
       <<"o","f","f","e","r","i","n","g","s">>,
       <<"p","r","o","d","u","c","t","s">>,
       <<"s","o","l","u","t","i","o","n","s">>,
       <<"e","v","e","r","y","t","h","i","n","g">>,
       <<"c","o","m","p","l","e","t","e">>,
       <<"f","u","l","l"," ","l","i","s","t">>,
       <<"e","n","t","i","r","e">> >>

\* is_list_query(question): any indicator occurs as a substring
is_list_query(question) == ContainsAny(lower(question), list_indicators)

service_words ==
    << <<"s","e","r","v","i","c","e">>,
       <<"o","f","f","e","r","i","n","g">>,
       <<"s","o","l","u","t","i","o","n">>,
       <<"p","r","o","d","u","c","t">> >>
job_words ==
    << <<"j","o","b">>,
       <<"c","a","r","e","e","r">>,
       <<"h","i","r","i","n","g">> >>
blog_words ==
    << <<"b","l","o","g">>,
       <<"a","r","t","i","c","l","e">>,
       <<"p","o","s","t">> >>
service_searches ==
    << <<"s","e","r","v","i","c","e","s"," ","a","n","d"," ","s","o","l","u","t","i","o","n","s">>,
       <<"w","h","a","t"," ","w","e"," ","o","f","f","e","r">>,
       <<"o","u","r"," ","o","f","f","e","r","i","n","g","s">>,
       <<"p","r","o","d","u","c","t","s"," ","a","n","d"," ","s","e","r","v","i","c","e","s">> >>
job_searches ==
    << <<"c","a","r","e","e","r","s"," ","a","n","d"," ","j","o","b","s">>,
       <<"w","o","r","k"," ","w","i","t","h"," ","u","s">>,
       <<"j","o","i","n"," ","o","u","r"," ","t","e","a","m">> >>
blog_searches ==
    << <<"b","l","o","g"," ","p","o","s","t","s">>,
       <<"a","r","t","i","c","l","e","s"," ","a","n","d"," ","c","o","n","t","e","n","t">>,
       <<"l","a","t","e","s","t"," ","u","p","d","a","t","e","s">> >>

\* get_comprehensive_docs, lines 196-218: the targeted searches are picked
\* from the query text handed to it (the if / elif / elif chain, no else).
additional_searches(query) ==
    LET query_lower == lower(query)
    IN  IF ContainsAny(query_lower, service_words) THEN service_searches
        ELSE IF ContainsAny(query_lower, job_words) THEN job_searches
        ELSE IF ContainsAny(query_lower, blog_words) THEN blog_searches
        ELSE <<>>

\* ------------------------------------------------------ rag_engine: index
\* A chunk is [id, head]: head stands for page_content[:200], the text the
\* fingerprint is taken from; two chunks with one head differ further on.
\* An index is [chunks, broken]; broken: its similarity_search raises.
Reverse(s) == [i \in 1..Len(s) |-> s[Len(s) + 1 - i]]

\* db.similarity_search(query, k): the k nearest chunks.  The ranking is the
\* embedding model's; `rev` picks one of two rankings of the same chunks.
similarity_search(ix, query, k, rev) ==
    Take(IF rev THEN Reverse(ix.chunks) ELSE ix.chunks, k)

\* hash(doc.page_content[:200]); equal prefixes give equal hashes
content_hash(doc) == doc.head

\* A variant of merge_docs that appends every document, seen or not.
merge_docs_keep_all(acc, docs) ==
    [all_docs     |-> acc.all_docs \o docs,
     seen_content |-> acc.seen_content \cup {content_hash(docs[i]) : i \in 1..Len(docs)}]

\* the loop body of lines 190-194 and 223-227 over one result list
RECURSIVE merge_docs(_, _)
merge_docs(acc, docs) ==
    IF docs = <<>> THEN acc
    ELSE LET doc == Head(docs)
         IN  IF content_hash(doc) \notin acc.seen_content
             THEN merge_docs([all_docs     |-> Append(acc.all_docs, doc),
                              seen_content |-> acc.seen_content \cup {content_hash(doc)}],
                             Tail(docs))
             ELSE merge_docs(acc, Tail(docs))

K_ADDITIONAL == 5

RECURSIVE run_additional(_, _, _, _)
run_additional(ix, acc, searches, revs) ==
    IF searches = <<>> THEN acc
    ELSE run_additional(
             ix,
             merge_docs(acc, similarity_search(ix, Head(searches), K_ADDITIONAL, Head(revs))),
             Tail(searches), Tail(revs))

\* get_comprehensive_docs(db, query, k); revs[i] is the ranking of search i.
\* Returns the merged list and the number of similarity_search calls made.
get_comprehensive_docs(ix, query, k, revs) ==
    LET primary == merge_docs([all_docs |-> <<>>, seen_content |-> {}],
                              similarity_search(ix, query, k, Head(revs)))
        extra   == additional_searches(query)
        acc     == run_additional(ix, primary, extra, Tail(revs))
    IN  [docs |-> acc.all_docs, calls |-> 1 + Len(extra)]

\* ------------------------------------------------------------------ state
VARIABLES
    db,             \* rag_engine.db: NoIndex, or the id of the index object it holds
    is_loading,     \* rag_engine.is_loading
    gemini_client,  \* rag_engine.gemini_client: None or "client"
    loader,         \* loader[t].pc: where thread t of load_vectorstore stands
    index,          \* index[t]: the object FAISS.load_local returned to thread t
    published,      \* the index that was current when a load last declared ready
    chats,          \* the turns of the chats table (models.Chat)
    req,            \* the get_answer call being followed
    bucket,         \* the two blobs of REMOTE_FOLDER in the Supabase bucket
    files,          \* the two files of LOCAL_PATH, shared by every load
    uploader,       \* where the upload of rag_ingest.ingest_website stands
    uploads,        \* uploads[f]: what upload_file found at the path and returned
    DATABASE_URL,   \* database.DATABASE_URL: None or the URL of the environment
    engine,         \* database.engine: None, or the id of the engine object
    SessionLocal,   \* database.SessionLocal: None, or the engine the factory is bound to
    _initialized,   \* database._initialized
    init_call,      \* the init_database call being followed
    tested,         \* the engines whose connection test has succeeded
    health,         \* what the last health check saw of database.engine
    chat_histories, \* chat.chat_histories: user_id -> list of {role, parts}
    bot_call,       \* the last get_bot_response call: its arguments and how it ended
    visited,        \* the visited set of the crawl (scraper.visited, crawl_website's visited)
    pages,          \* the URLs of the page records saved (scraper.pages, all_pages)
    queue,          \* PrimisWebsiteScraper.crawl: its queue list
    to_visit,       \* rag_ingest.crawl_website: its to_visit set
    crawl_call      \* the crawl call being followed

\* the state of rag_engine.py and of the storage it loads from
rag_vars == <<db, is_loading, gemini_client, loader, index, published, chats, req,
              bucket, files, uploader, uploads>>

\* the state of database.py, and of its callers
database_vars == <<DATABASE_URL, engine, SessionLocal, _initialized, init_call,
                   tested, health>>

\* the state of chat.py
chat_vars == <<chat_histories, bot_call>>

\* the state of the two crawl loops
crawl_vars == <<visited, pages, queue, to_visit, crawl_call>>

\* the state outside rag_engine.py and its storage, outside database.py,
\* outside chat.py, outside the crawl loops
outside_rag == <<database_vars, chat_vars, crawl_vars>>
outside_database == <<rag_vars, chat_vars, crawl_vars>>
outside_chat == <<rag_vars, database_vars, crawl_vars>>
outside_crawl == <<rag_vars, database_vars, chat_vars>>

vars == <<rag_vars, database_vars, chat_vars, crawl_vars>>

\* the storage side of the state
store == <<bucket, files, uploader, uploads>>

Threads == 1..MaxLoads

DownloadPcs == {"download1", "download2"}
InFlightPcs == DownloadPcs \cup {"deserialize", "test"}
UploaderPcs == {"idle", "remove_faiss", "upload_faiss", "remove_pkl", "upload_pkl", "done"}
InFlight == {t \in Threads : loader[t].pc \in InFlightPcs}
Started  == {t \in Threads : loader[t].pc # "idle"}

\* The indexes a deserialisation may yield: one with no chunk at all, and
\* one with three chunks of which two share their first 200 characters, the
\* latter sound or broken.
\* rag_ingest.py line 135: a chunk holds at most chunk_size characters
CHUNK_SIZE == 500
Chunk(i, h) == [id |-> i, head |-> h, size |-> CHUNK_SIZE]
ThreeChunks == << Chunk(1, "pricing"), Chunk(2, "pricing"), Chunk(3, "careers") >>
TwoChunks == << Chunk(4, "blog"), Chunk(5, "contact") >>

\* What a blob or a file may hold: nothing, the bytes of one saved vector
\* store, or fewer bytes than were saved (none at all, or a truncated part).
Absent == "absent"
Partial == "partial"
Versions == {"v0", "v1", "v2"}
Contents == Versions \cup {Absent, Partial}
FILES_TO_DOWNLOAD == <<"index.faiss", "index.pkl">>
FileNames == {FILES_TO_DOWNLOAD[i] : i \in 1..Len(FILES_TO_DOWNLOAD)}
Pair(v) == [f \in FileNames |-> v]

\* The chunks each saved vector store was built from: none, three, two.
ChunkTable ==
    [v \in Versions |->
        CASE v = "v0" -> <<>>
          [] v = "v1" -> ThreeChunks
          [] v = "v2" -> TwoChunks]

\* The vector store ingest_website saves and uploads.
INGESTED == "v2"

\* FAISS.load_local on two readable files: the vectors of index.faiss, the
\* chunk table of index.pkl; nothing compares the two.
load_local(dir, broken) ==
    [chunks |-> ChunkTable[dir["index.pkl"]],
     ntotal |-> Len(ChunkTable[dir["index.faiss"]]),
     broken |-> broken]

\* Whether similarity_search on the loaded object may raise: it may for any
\* index (the embedding of the query), and it must when there are vectors
\* and no chunk to map a hit to.
MayBreak(dir) ==
    IF ChunkTable[dir["index.pkl"]] = <<>> /\ ChunkTable[dir["index.faiss"]] # <<>>
    THEN {TRUE} ELSE BOOLEAN

IndexValues ==
    { load_local([f \in FileNames |-> IF f = "index.faiss" THEN a ELSE b], br) :
        a \in Versions, b \in Versions, br \in BOOLEAN }

\* models.Chat: the columns of the chats table
ChatColumns == {"id", "user_id", "question", "answer", "created_at"}
\* The turns answered so far, oldest first; session_id is the session a
\* turn was asked in (voice_chat.py, line 200), which no column of
\* ChatColumns keeps.
ChatTables ==
    { << [user_id |-> 1, session_id |-> "s1",
          question |-> <<"h","i">>, answer |-> <<"o","k">>] >> }

Questions ==
    { <<"h","e","l","l","o">>,
      <<" ","H","i",","," ","l","i","s","t"," ","a","l","l"," ","s","e","r","v","i","c","e","s">>,
      <<"h","i","s","t","o","r","y">>,
      <<"l","i","s","t"," ","a","l","l"," ","y","o","u","r"," ","s","e","r","v","i","c","e","s">>,
      <<"s","h","o","w"," ","m","e"," ","e","v","e","r","y","t","h","i","n","g">> }

\* What gemini_client.models.generate_content may do: return text, or raise.
ErrorMessages ==
    { <<"c","o","n","n","e","c","t","i","o","n"," ","t","i","m","e","d"," ","o","u","t">>,
      <<"q","u","o","t","a"," ","e","x","c","e","e","d","e","d">> }
ResponseTexts ==
    { <<" "," ">>,
      <<"o","u","r"," ","s","e","r","v","i","c","e","s">> }
LLMOutcomes ==
    [kind : {"raise"}, text : ErrorMessages] \cup [kind : {"text"}, text : ResponseTexts]

\* The texts retrieval may be asked for: a question, or a rewritten question.
Queries == Questions \cup {strip(t) : t \in ResponseTexts}

\* The text predicates, tabulated once over the texts of the model.
GreetingOf == [q \in Questions |-> is_greeting(q)]
ListQueryOf == [q \in Questions |-> is_list_query(q)]
SearchesOf == [q \in Queries |-> additional_searches(q)]

\* str(e) of the exception a broken index raises in similarity_search
SearchErrorMessage == <<"d","i","m","e","n","s","i","o","n"," ","m","i","s","m","a","t","c","h">>

IdleReq ==
    [pc |-> "idle", question |-> <<>>, session_id |-> None, search_query |-> <<>>,
     docs |-> <<>>, result |-> None, nSearch |-> 0, nHist |-> 0, nLLM |-> 0,
     loadingAtCall |-> FALSE, dbUsed |-> NoIndex, usedReady |-> FALSE, emptyAtCall |-> FALSE,
     context |-> 0, error |-> <<>>, fallback |-> <<>>, answer |-> <<>>,
     failedAtCall |-> FALSE, k |-> 0, searched |-> {}, dbSeen |-> {}, left |-> <<>>]

\* engine = None and SessionLocal = None: engine ids are 1, 2, ...
NoEngine == 0

\* database.py before its import: no init_database call has been made
NoInitCall ==
    [pc |-> "unimported", max_retries |-> 0, attempt |-> 0, attempts |-> 0,
     succeeded |-> FALSE, wasInitialized |-> FALSE, result |-> "none", calls |-> 0,
     created |-> 0]

Results ==
    {"GREETING", "STILL_LOADING", "KB_TROUBLE", "AI_UNAVAILABLE", "NOT_FOUND",
     "NETWORK_ISSUE", "GENERIC_ERROR", "ANSWER"}

\* The shape of the state: the three module globals, and the bookkeeping.
TypeOK ==
    /\ db \in Threads \cup {NoIndex}
    /\ is_loading \in BOOLEAN
    /\ gemini_client \in {None, "client"}
    /\ \A t \in Threads :
           /\ loader[t].pc \in InFlightPcs \cup {"idle", "ready", "failed"}
           /\ index[t] \in IndexValues \cup {NoObject}
    /\ db # NoIndex => index[db] \in IndexValues
    /\ published \in Threads \cup {NoIndex}
    /\ chats \in ChatTables
    /\ bucket \in [FileNames -> Versions \cup {Absent}]
    /\ files \in [FileNames -> Contents]
    /\ uploader \in UploaderPcs
    /\ req.pc \in {"idle", "check_db", "check_client", "history", "search",
                   "search_more", "generate", "done"}
    /\ req.result \in Results \cup {None}
    /\ req.pc = "done" <=> req.result # None

Init ==
    /\ db = NoIndex
    /\ is_loading = TRUE
    /\ gemini_client = None
    /\ loader = [t \in Threads |-> [pc |-> "idle", fetches |-> 0, got |-> {}]]
    /\ index = [t \in Threads |-> NoObject]
    /\ published = NoIndex
    /\ chats \in ChatTables
    /\ req = IdleReq
    /\ bucket \in {Pair("v0"), Pair("v1")}
    /\ files = Pair(Absent)
    /\ uploader = "idle"
    /\ uploads = [f \in FileNames |-> [result |-> "none", before |-> Absent]]
    /\ DATABASE_URL = None
    /\ engine = NoEngine
    /\ SessionLocal = NoEngine
    /\ _initialized = FALSE
    /\ init_call = NoInitCall
    /\ tested = {}
    /\ health = [status |-> "none", engine |-> NoEngine, wasTested |-> FALSE]
    /\ chat_histories = <<>>
    /\ bot_call = [user_id |-> 0, message |-> <<>>, raised |-> FALSE]
    /\ visited = {}
    /\ pages = <<>>
    /\ queue = <<>>
    /\ to_visit = {}
    /\ crawl_call = [pc |-> "idle", which |-> "none", max_pages |-> 0, calls |-> 0,
                     refetched |-> FALSE, before |-> {}]

\* ------------------------------------------------------------- the loader
\* initialize_gemini(): the client is set when the key is there
initialize_gemini ==
    /\ \E has_key \in BOOLEAN :
           gemini_client' = IF has_key THEN "client" ELSE gemini_client
    /\ UNCHANGED <<outside_rag, db, is_loading, loader, index, published, chats, req, store>>

\* start_loading_vectorstore(): a new thread running load_vectorstore
start_loading_vectorstore ==
    /\ \E t \in Threads :
           /\ loader[t].pc = "idle"
           /\ \A u \in Threads : loader[u].pc = "idle" => t <= u
           /\ loader' = [loader EXCEPT ![t].pc = "download1"]
    /\ UNCHANGED <<outside_rag, db, is_loading, gemini_client, index, published, chats, req, store>>

\* the download_file calls thread t has made when its present step is over
fetches_after(t) ==
    loader[t].fetches + (IF loader[t].pc \in DownloadPcs THEN 1 ELSE 0)

\* A variant of load_failed that leaves is_loading as it is.
load_failed_silent(t) ==
    /\ is_loading' = is_loading
    /\ loader' = [loader EXCEPT ![t].pc = "failed", ![t].fetches = fetches_after(t)]

\* load_vectorstore, lines 96-99: the except branch
load_failed(t) ==
    /\ is_loading' = FALSE
    /\ loader' = [loader EXCEPT ![t].pc = "failed", ![t].fetches = fetches_after(t)]

\* load_vectorstore, lines 93-94: the load declares itself ready
load_ready(t) ==
    /\ is_loading' = FALSE
    /\ loader' = [loader EXCEPT ![t].pc = "ready"]

\* the file a pass of the download loop is about
file_of(pc) == IF pc = "download1" THEN FILES_TO_DOWNLOAD[1] ELSE FILES_TO_DOWNLOAD[2]

\* SupabaseStorageManager.download_file: what the call may write and return.
\* No response, or an exception (a missing blob included), returns False and
\* writes nothing; any bytes received are written and True is returned,
\* however few they are.
download_file(blob) ==
    {[success |-> FALSE, written |-> Absent]}
        \cup (IF blob = Absent THEN {}
              ELSE {[success |-> TRUE, written |-> blob],
                    [success |-> TRUE, written |-> Partial]})

\* A variant of download that goes on to the next step when download_file
\* returned False.
download_unchecked(t) ==
    /\ loader[t].pc \in DownloadPcs
    /\ LET f == file_of(loader[t].pc)
       IN  \E got \in download_file(bucket[f]) :
               /\ files' = IF got.success THEN [files EXCEPT ![f] = got.written]
                           ELSE files
               /\ loader' = [loader EXCEPT
                               ![t].pc = IF loader[t].pc = "download1"
                                         THEN "download2" ELSE "deserialize",
                               ![t].fetches = @ + 1,
                               ![t].got = IF got.success THEN @ \cup {f} ELSE @]
               /\ UNCHANGED is_loading
    /\ UNCHANGED <<outside_rag, db, gemini_client, index, published, chats, req, bucket, uploader, uploads>>

\* load_vectorstore, lines 56-72: one pass of the download loop
download(t) ==
    /\ loader[t].pc \in DownloadPcs
    /\ LET f == file_of(loader[t].pc)
       IN  \E got \in download_file(bucket[f]) :
               IF got.success
               THEN /\ files' = [files EXCEPT ![f] = got.written]
                    /\ loader' = [loader EXCEPT
                                    ![t].pc = IF loader[t].pc = "download1"
                                              THEN "download2" ELSE "deserialize",
                                    ![t].fetches = @ + 1,
                                    ![t].got = @ \cup {f}]
                    /\ UNCHANGED is_loading
               ELSE /\ load_failed(t)
                    /\ UNCHANGED files
    /\ UNCHANGED <<outside_rag, db, gemini_client, index, published, chats, req, bucket, uploader, uploads>>

\* whether FAISS.load_local can read both files of the directory
readable(dir) == \A f \in FileNames : dir[f] \in Versions

\* A variant of deserialize where a load that fails sets db back to None.
deserialize_clearing(t) ==
    /\ loader[t].pc = "deserialize"
    /\ \/ /\ load_failed(t)
          /\ db' = NoIndex
          /\ UNCHANGED index
       \/ /\ readable(files)
          /\ \E broken \in MayBreak(files) :
                 /\ index' = [index EXCEPT ![t] = load_local(files, broken)]
                 /\ db' = t
                 /\ loader' = [loader EXCEPT ![t].pc = "test"]
                 /\ UNCHANGED is_loading
    /\ UNCHANGED <<outside_rag, gemini_client, published, chats, req, store>>

\* load_vectorstore, lines 74-85: embeddings, then db = FAISS.load_local(...)
deserialize(t) ==
    /\ loader[t].pc = "deserialize"
    /\ \/ /\ load_failed(t)
          /\ UNCHANGED <<db, index>>
       \/ /\ readable(files)
          /\ \E broken \in MayBreak(files) :
                 /\ index' = [index EXCEPT ![t] = load_local(files, broken)]
                 /\ db' = t
                 /\ loader' = [loader EXCEPT ![t].pc = "test"]
                 /\ UNCHANGED is_loading
    /\ UNCHANGED <<outside_rag, gemini_client, published, chats, req, store>>

\* load_vectorstore, lines 87-99: the test search on the global db
test_search(t) ==
    /\ loader[t].pc = "test"
    /\ IF index[db].broken
       THEN load_failed(t) /\ UNCHANGED published
       ELSE load_ready(t) /\ published' = db
    /\ UNCHANGED <<outside_rag, db, gemini_client, index, chats, req, store>>

load_vectorstore(t) == download(t) \/ deserialize(t) \/ test_search(t)

\* ---------------------------------------------------------------- ingest
\* SupabaseStorageManager.upload_file, lines 61-66: the blob is removed first
upload_remove ==
    /\ uploader \in {"remove_faiss", "remove_pkl"}
    /\ LET f == IF uploader = "remove_faiss" THEN "index.faiss" ELSE "index.pkl"
       IN  /\ bucket' = [bucket EXCEPT ![f] = Absent]
           /\ uploads' = [uploads EXCEPT ![f] = [result |-> "none", before |-> bucket[f]]]
    /\ uploader' = IF uploader = "remove_faiss" THEN "upload_faiss" ELSE "upload_pkl"
    /\ UNCHANGED <<outside_rag, db, is_loading, gemini_client, loader, index, published, chats,
                   req, files>>

\* SupabaseStorageManager.upload_file, lines 68-88: the new blob is stored
\* and True returned, or the upload raises and the except returns False
upload_store ==
    /\ uploader \in {"upload_faiss", "upload_pkl"}
    /\ LET f == IF uploader = "upload_faiss" THEN "index.faiss" ELSE "index.pkl"
       IN  \E stored \in BOOLEAN :
               /\ bucket' = IF stored THEN [bucket EXCEPT ![f] = INGESTED] ELSE bucket
               /\ uploads' = [uploads EXCEPT
                                  ![f].result = IF stored THEN "True" ELSE "False"]
    /\ uploader' = IF uploader = "upload_faiss" THEN "remove_pkl" ELSE "done"
    /\ UNCHANGED <<outside_rag, db, is_loading, gemini_client, loader, index, published, chats,
                   req, files>>

\* ingest_website, lines 157-172: the two uploads, index.faiss then index.pkl
ingest_website ==
    \/ /\ uploader = "idle"
       /\ uploader' = "remove_faiss"
       /\ UNCHANGED <<outside_rag, db, is_loading, gemini_client, loader, index, published,
                      chats, req, bucket, files, uploads>>
    \/ upload_remove
    \/ upload_store

\* ------------------------------------------------------------- get_answer
\* The number of attempts a remote fetch is allowed. load_vectorstore
\* configures none; the value stands for any number above one.
MaxAttempts == 2
\* The character budget of the context. get_answer configures none; the
\* value stands for any budget three chunks overrun.
ContextBudget == 1000
K_COMPREHENSIVE == 15
K_STANDARD == 6
HISTORY_LIMIT == 5
\* the rankings the index may give to n searches in a row
Rankings(n) == [1..n -> BOOLEAN]

\* the last n elements of a list
LastN(s, n) == IF Len(s) <= n THEN s ELSE SubSeq(s, Len(s) - n + 1, Len(s))

\* get_recent_messages(db, session_id, limit): the query names
\* Chat.session_id; on a Chat without that column the attribute access
\* raises inside the try, and the except branch returns [].
get_recent_messages(table, session_id, limit) ==
    IF "session_id" \notin ChatColumns
    THEN <<>>
    ELSE LastN(SelectSeq(table, LAMBDA r : r.session_id = session_id), limit)

\* A variant of rewrite_question that returns whatever text it ends up with.
rewrite_question_strict(chat_history, user_question, out) == strip(out.text)

\* rewrite_question(chat_history, user_question), given what the model did
rewrite_question(chat_history, user_question, out) ==
    IF out.kind = "raise" THEN user_question
    ELSE IF strip(out.text) # <<>> THEN strip(out.text)
    ELSE user_question

\* A variant of rewrite_step without the `if chat_history` guard of line 267.
rewrite_step_unguarded(chat_history, question, out) ==
    [query |-> rewrite_question(chat_history, question, out), calls |-> 1]

\* get_answer, lines 263-270: the query retrieval will use, and the number of
\* model calls made to obtain it
rewrite_step(chat_history, question, out) ==
    IF chat_history # <<>>
    THEN [query |-> rewrite_question(chat_history, question, out), calls |-> 1]
    ELSE [query |-> question, calls |-> 0]

\* get_answer, lines 366-383: the reply of the except branch
error_reply(error_message) ==
    IF is_network_error(error_message) THEN "NETWORK_ISSUE" ELSE "GENERIC_ERROR"

\* The fixed texts get_answer returns when it gives no answer.
\* get_answer, line 251
STILL_LOADING_REPLY ==
    <<"T","h","e"," ","k","n","o","w","l","e","d","g","e"," ","b","a","s","e"," ","i",
      "s"," ","s","t","i","l","l"," ","l","o","a","d","i","n","g","."," ","P","l","e",
      "a","s","e"," ","t","r","y"," ","a","g","a","i","n"," ","i","n"," ","a"," ","m",
      "o","m","e","n","t",".">>
\* get_answer, lines 254-257
KB_TROUBLE_REPLY ==
    <<"I","'","m"," ","h","a","v","i","n","g"," ","t","r","o","u","b","l","e"," ","a",
      "c","c","e","s","s","i","n","g"," ","t","h","e"," ","k","n","o","w","l","e","d",
      "g","e"," ","b","a","s","e"," ","r","i","g","h","t"," ","n","o","w","."," ","P",
      "l","e","a","s","e"," ","t","r","y"," ","a","g","a","i","n"," ","i","n"," ","a",
      " ","m","o","m","e","n","t"," ","o","r"," ","c","o","n","t","a","c","t"," ","o",
      "u","r"," ","t","e","a","m"," ","d","i","r","e","c","t","l","y",".">>
\* get_answer, line 260
AI_UNAVAILABLE_REPLY ==
    <<"A","I"," ","s","e","r","v","i","c","e"," ","i","s"," ","n","o","t"," ","a","v",
      "a","i","l","a","b","l","e","."," ","P","l","e","a","s","e"," ","c","o","n","t",
      "a","c","t"," ","s","u","p","p","o","r","t",".">>
\* get_answer, lines 290-294
NOT_FOUND_REPLY ==
    <<"I"," ","c","o","u","l","d","n","'","t"," ","f","i","n","d"," ","s","p","e","c",
      "i","f","i","c"," ","i","n","f","o","r","m","a","t","i","o","n"," ","a","b","o",
      "u","t"," ","t","h","a","t"," ","i","n"," ","o","u","r"," ","k","n","o","w","l",
      "e","d","g","e"," ","b","a","s","e","."," ","P","l","e","a","s","e"," ","c","o",
      "n","t","a","c","t"," ","o","u","r"," ","t","e","a","m"," ","f","o","r"," ","f",
      "u","r","t","h","e","r"," ","i","n","f","o","r","m","a","t","i","o","n","."," ",
      "Y","o","u"," ","c","a","n"," ","r","e","a","c","h"," ","u","s"," ","t","h","r",
      "o","u","g","h"," ","o","u","r"," ","w","e","b","s","i","t","e","'","s"," ","c",
      "o","n","t","a","c","t"," ","f","o","r","m"," ","o","r"," ","e","m","a","i","l",
      " ","u","s"," ","d","i","r","e","c","t","l","y",".">>
\* get_answer, lines 373-377
NETWORK_ISSUE_REPLY ==
    <<"W","e","'","r","e"," ","e","x","p","e","r","i","e","n","c","i","n","g"," ","n",
      "e","t","w","o","r","k"," ","c","o","n","n","e","c","t","i","v","i","t","y"," ",
      "i","s","s","u","e","s"," ","a","t"," ","t","h","e"," ","m","o","m","e","n","t",
      "."," ","P","l","e","a","s","e"," ","t","r","y"," ","a","g","a","i","n"," ","i",
      "n"," ","a"," ","f","e","w"," ","m","o","m","e","n","t","s","."," ","I","f"," ",
      "t","h","e"," ","p","r","o","b","l","e","m"," ","p","e","r","s","i","s","t","s",
      ","," ","p","l","e","a","s","e"," ","c","o","n","t","a","c","t"," ","o","u","r",
      " ","s","u","p","p","o","r","t"," ","t","e","a","m",".">>
\* get_answer, lines 380-383
GENERIC_ERROR_REPLY ==
    <<"I"," ","a","p","o","l","o","g","i","z","e",","," ","b","u","t"," ","I"," ","e",
      "n","c","o","u","n","t","e","r","e","d"," ","a","n"," ","i","s","s","u","e"," ",
      "w","h","i","l","e"," ","p","r","o","c","e","s","s","i","n","g"," ","y","o","u",
      "r"," ","r","e","q","u","e","s","t","."," ","P","l","e","a","s","e"," ","c","o",
      "n","t","a","c","t"," ","o","u","r"," ","t","e","a","m"," ","f","o","r"," ","f",
      "u","r","t","h","e","r"," ","a","s","s","i","s","t","a","n","c","e",".">>

FallbackResults ==
    {"STILL_LOADING", "KB_TROUBLE", "AI_UNAVAILABLE", "NOT_FOUND",
     "NETWORK_ISSUE", "GENERIC_ERROR"}

\* The text behind each result other than the greeting and an answer.
FallbackText ==
    [r \in FallbackResults |->
        CASE r = "STILL_LOADING"  -> STILL_LOADING_REPLY
          [] r = "KB_TROUBLE"     -> KB_TROUBLE_REPLY
          [] r = "AI_UNAVAILABLE" -> AI_UNAVAILABLE_REPLY
          [] r = "NOT_FOUND"      -> NOT_FOUND_REPLY
          [] r = "NETWORK_ISSUE"  -> NETWORK_ISSUE_REPLY
          [] r = "GENERIC_ERROR"  -> GENERIC_ERROR_REPLY]

\* A variant of fallback_text that appends str(e) to the fixed text.
fallback_text_with_error(result, error_message) ==
    IF result \in FallbackResults THEN FallbackText[result] \o error_message ELSE <<>>

\* get_answer, lines 251-383: the fixed text returned for a result; the
\* except branch (lines 366-383) does not use error_message in what it returns
fallback_text(result, error_message) ==
    IF result \in FallbackResults THEN FallbackText[result] ELSE <<>>

\* get_answer, line 310: the separator of the chunks in the context
SEPARATOR == <<"\n","\n","-","-","-","\n","\n">>

\* get_answer, line 310: the length of SEPARATOR.join of the page contents
RECURSIVE context_length(_)
context_length(docs) ==
    IF docs = <<>> THEN 0
    ELSE IF Len(docs) = 1 THEN Head(docs).size
    ELSE Head(docs).size + Len(SEPARATOR) + context_length(Tail(docs))

\* A variant of no_docs that never takes the empty branch.
no_docs_skipped(docs) == FALSE

\* get_answer, line 288: `if not docs`
no_docs(docs) == docs = <<>>

\* a return of get_answer: the call ends with this result and its text
Finish(r, result) ==
    [r EXCEPT !.pc = "done", !.result = result,
              !.fallback = fallback_text(result, r.error)]

\* A variant of first_reply without the is_loading check of line 250.
first_reply_unchecked(question, loading) ==
    IF GreetingOf[question] THEN "GREETING" ELSE None

\* A variant of first_reply that looks at is_loading before the greeting.
first_reply_loading_first(question, loading) ==
    IF loading THEN "STILL_LOADING"
    ELSE IF GreetingOf[question] THEN "GREETING"
    ELSE None

\* get_answer, lines 242-251: the two early returns, in their order
first_reply(question, loading) ==
    IF GreetingOf[question] THEN "GREETING"
    ELSE IF loading THEN "STILL_LOADING"
    ELSE None

\* get_answer, lines 240-251: the greeting check, then the read of is_loading
answer_begin ==
    /\ req.pc = "idle"
    /\ \E question \in Questions, session_id \in {None, "s1"}, db_session \in {None, "conn"} :
           LET r0 == [IdleReq EXCEPT
                        !.question = question,
                        !.search_query = question,
                        !.session_id = IF session_id # None /\ db_session # None
                                       THEN session_id ELSE None,
                        !.loadingAtCall = is_loading,
                        !.emptyAtCall = /\ ~is_loading
                                        /\ db # NoIndex
                                        /\ index[db].chunks = <<>>,
                        !.failedAtCall = /\ Started # {}
                                         /\ \A t \in Started : loader[t].pc = "failed"]
               early == first_reply(question, is_loading)
           IN  req' = IF early # None THEN Finish(r0, early)
                      ELSE [r0 EXCEPT !.pc = "check_db"]
    /\ UNCHANGED <<outside_rag, db, is_loading, gemini_client, loader, index, published, chats, store>>

\* get_answer, lines 253-257: the read of db
answer_check_db ==
    /\ req.pc = "check_db"
    /\ req' = IF db = NoIndex THEN Finish(req, "KB_TROUBLE")
              ELSE [req EXCEPT !.pc = "check_client"]
    /\ UNCHANGED <<outside_rag, db, is_loading, gemini_client, loader, index, published, chats, store>>

\* get_answer, lines 259-260: the read of gemini_client
answer_check_client ==
    /\ req.pc = "check_client"
    /\ req' = IF gemini_client = None THEN Finish(req, "AI_UNAVAILABLE")
              ELSE [req EXCEPT !.pc = "history"]
    /\ UNCHANGED <<outside_rag, db, is_loading, gemini_client, loader, index, published, chats, store>>

\* get_answer, lines 262-273: the history read and the rewrite
answer_history ==
    /\ req.pc = "history"
    /\ IF req.session_id # None
       THEN \E out \in LLMOutcomes :
                LET chat_history == get_recent_messages(chats, req.session_id, HISTORY_LIMIT)
                    rewrite == rewrite_step(chat_history, req.question, out)
                IN  req' = [req EXCEPT
                              !.pc = "search",
                              !.nHist = @ + 1,
                              !.nLLM = @ + rewrite.calls,
                              !.search_query = rewrite.query]
       ELSE req' = [req EXCEPT !.pc = "search"]
    /\ UNCHANGED <<outside_rag, db, is_loading, gemini_client, loader, index, published, chats, store>>

\* A variant of retrieve that takes the comprehensive search for every question.
retrieve_comprehensive(ix, question, search_query, revs) ==
    LET got == get_comprehensive_docs(ix, search_query, K_COMPREHENSIVE, revs)
    IN  [docs |-> got.docs, calls |-> got.calls, k |-> K_COMPREHENSIVE]

\* get_answer, lines 275-286: the search taken for a question; k is the k of
\* its (first) similarity_search call
retrieve(ix, question, search_query, revs) ==
    IF ListQueryOf[question]
    THEN LET got == get_comprehensive_docs(ix, search_query, K_COMPREHENSIVE, revs)
         IN  [docs |-> got.docs, calls |-> got.calls, k |-> K_COMPREHENSIVE]
    ELSE [docs  |-> similarity_search(ix, search_query, K_STANDARD, revs[1]),
          calls |-> 1,
          k     |-> K_STANDARD]

\* get_answer, lines 275-294: retrieval on the global db, and the empty case
answer_search ==
    /\ req.pc = "search"
    /\ \E revs \in Rankings(IF ListQueryOf[req.question]
                           THEN 1 + Len(SearchesOf[req.search_query])
                           ELSE 1) :
           LET ix   == index[db]
               got  == retrieve(ix, req.question, req.search_query, revs)
               used == [req EXCEPT !.dbUsed = db,
                                   !.usedReady = (loader[db].pc = "ready"),
                                   !.k = got.k,
                                   !.searched = {db},
                                   !.dbSeen = {db}]
           IN  req' = IF ix.broken
                      THEN Finish([used EXCEPT !.nSearch = 1,
                                               !.error = SearchErrorMessage],
                                  error_reply(SearchErrorMessage))
                      ELSE IF no_docs(got.docs)
                      THEN Finish([used EXCEPT !.nSearch = got.calls], "NOT_FOUND")
                      ELSE [used EXCEPT !.pc = "generate",
                                        !.nSearch = got.calls,
                                        !.docs = got.docs,
                                        !.context = context_length(got.docs)]
    /\ UNCHANGED <<outside_rag, db, is_loading, gemini_client, loader, index, published, chats, store>>

\* get_answer, line 285: the standard search, one call
answer_search_standard ==
    /\ req.pc = "search"
    /\ ~ListQueryOf[req.question]
    /\ answer_search

\* get_answer, line 282, and get_comprehensive_docs, lines 184-194: the
\* argument db is read from the global and bound to the parameter, then
\* the primary search runs on it
comprehensive_primary ==
    /\ req.pc = "search"
    /\ ListQueryOf[req.question]
    /\ \E rev \in BOOLEAN :
           LET ix   == index[db]
               used == [req EXCEPT !.dbUsed = db,
                                   !.usedReady = (loader[db].pc = "ready"),
                                   !.k = K_COMPREHENSIVE,
                                   !.nSearch = 1,
                                   !.searched = {db},
                                   !.dbSeen = {db}]
               acc  == merge_docs([all_docs |-> <<>>, seen_content |-> {}],
                                  similarity_search(ix, req.search_query,
                                                    K_COMPREHENSIVE, rev))
           IN  req' = IF ix.broken
                      THEN Finish([used EXCEPT !.error = SearchErrorMessage],
                                  error_reply(SearchErrorMessage))
                      ELSE [used EXCEPT !.pc = "search_more",
                                        !.docs = acc.all_docs,
                                        !.left = SearchesOf[req.search_query]]
    /\ UNCHANGED <<outside_rag, db, is_loading, gemini_client, loader, index, published, chats, store>>

\* one pass of the loop of lines 221-227 on the index object `on`
additional_search(on, rev) ==
    LET seen == {content_hash(req.docs[i]) : i \in 1..Len(req.docs)}
        acc  == merge_docs([all_docs |-> req.docs, seen_content |-> seen],
                           similarity_search(index[on], Head(req.left),
                                             K_ADDITIONAL, rev))
    IN  [req EXCEPT !.docs = acc.all_docs,
                    !.left = Tail(@),
                    !.nSearch = @ + 1,
                    !.searched = @ \cup {on},
                    !.dbSeen = @ \cup {db}]

\* A variant of comprehensive_additional that searches the global db as it
\* is at the time of each search.
comprehensive_additional_global ==
    /\ req.pc = "search_more"
    /\ req.left # <<>>
    /\ \E rev \in BOOLEAN : req' = additional_search(db, rev)
    /\ UNCHANGED <<outside_rag, db, is_loading, gemini_client, loader, index, published, chats, store>>

\* get_comprehensive_docs, lines 221-227: one additional search, on the
\* parameter db of the function
comprehensive_additional ==
    /\ req.pc = "search_more"
    /\ req.left # <<>>
    /\ \E rev \in BOOLEAN : req' = additional_search(req.dbUsed, rev)
    /\ UNCHANGED <<outside_rag, db, is_loading, gemini_client, loader, index, published, chats, store>>

\* get_comprehensive_docs returns, and get_answer lines 288-294 and 310
comprehensive_return ==
    /\ req.pc = "search_more"
    /\ req.left = <<>>
    /\ req' = IF no_docs(req.docs)
              THEN Finish(req, "NOT_FOUND")
              ELSE [req EXCEPT !.pc = "generate",
                               !.context = context_length(req.docs)]
    /\ UNCHANGED <<outside_rag, db, is_loading, gemini_client, loader, index, published, chats, store>>

\* A variant of generate_content where a call that raised is made once more
\* before the error is reported.
generate_content_retrying(r, out) ==
    IF out.kind = "raise"
    THEN Finish([r EXCEPT !.nLLM = @ + 2, !.error = out.text], error_reply(out.text))
    ELSE Finish([r EXCEPT !.nLLM = @ + 1, !.answer = strip(out.text)], "ANSWER")

\* get_answer, lines 355-383: one generate_content call; its text stripped
\* is the answer, its exception goes to the except block
generate_content(r, out) ==
    IF out.kind = "raise"
    THEN Finish([r EXCEPT !.nLLM = @ + 1, !.error = out.text], error_reply(out.text))
    ELSE Finish([r EXCEPT !.nLLM = @ + 1, !.answer = strip(out.text)], "ANSWER")

\* get_answer, lines 355-383: the synthesis call
answer_generate ==
    /\ req.pc = "generate"
    /\ \E out \in LLMOutcomes : req' = generate_content(req, out)
    /\ UNCHANGED <<outside_rag, db, is_loading, gemini_client, loader, index, published, chats, store>>

\* A variant of answer_return that stores the turn in the chats table.
answer_return_saving ==
    /\ req.pc = "done"
    /\ req' = IdleReq
    /\ chats' = Append(chats, [user_id |-> 1, session_id |-> req.session_id,
                               question |-> req.question, answer |-> req.answer])
    /\ UNCHANGED <<outside_rag, db, is_loading, gemini_client, loader, index, published, store>>

\* get_answer returns: the caller holds the reply, the call is over
answer_return ==
    /\ req.pc = "done"
    /\ req' = IdleReq
    /\ UNCHANGED <<outside_rag, db, is_loading, gemini_client, loader, index, published, chats, store>>

get_answer ==
    \/ answer_begin
    \/ answer_check_db
    \/ answer_check_client
    \/ answer_history
    \/ answer_search
    \/ answer_generate
    \/ answer_return

\* get_answer with the searches of a comprehensive retrieval as single steps
get_answer_stepwise ==
    \/ answer_begin
    \/ answer_check_db
    \/ answer_check_client
    \/ answer_history
    \/ answer_search_standard
    \/ comprehensive_primary
    \/ comprehensive_additional
    \/ comprehensive_return
    \/ answer_generate
    \/ answer_return

\* -------------------------------------------------------------- database
\* init_database(max_retries=5, ...): the default, also what main.py passes
DEFAULT_MAX_RETRIES == 5
\* the init_database calls followed: the one of the import and those after it
MaxInitCalls == 3
\* the values of max_retries a call is followed with
RetryChoices == {0, 1, 2, DEFAULT_MAX_RETRIES}

\* init_database, lines 31-40: the two early returns, else the loop is entered
init_enter(call, url, max_retries) ==
    LET c == [call EXCEPT !.max_retries = max_retries, !.attempt = 0, !.attempts = 0,
                          !.succeeded = FALSE, !.calls = @ + 1,
                          !.wasInitialized = (_initialized /\ engine # NoEngine)]
    IN  IF _initialized /\ engine # NoEngine
        THEN [c EXCEPT !.pc = "returned", !.result = "True"]
        ELSE IF url = None
        THEN [c EXCEPT !.pc = "returned", !.result = "False"]
        ELSE IF max_retries <= 0
        THEN [c EXCEPT !.pc = "returned", !.result = "None"]
        ELSE [c EXCEPT !.pc = "create", !.result = "none"]

\* database.py, lines 19 and 92: the import reads the environment and makes
\* the first init_database() call
database_import ==
    /\ init_call.pc = "unimported"
    /\ \E url \in {None, "url"} :
           /\ DATABASE_URL' = url
           /\ init_call' = init_enter(init_call, url, DEFAULT_MAX_RETRIES)
    /\ UNCHANGED <<outside_database, engine, SessionLocal, _initialized, tested, health>>

\* a later init_database(max_retries) call: main.py line 37, get_db line 72
init_begin ==
    /\ init_call.pc = "idle"
    /\ init_call.calls < MaxInitCalls
    /\ \E max_retries \in RetryChoices :
           init_call' = init_enter(init_call, DATABASE_URL, max_retries)
    /\ UNCHANGED <<outside_database, DATABASE_URL, engine, SessionLocal, _initialized, tested,
                   health>>

\* A variant of init_except that leaves the globals as they are when the
\* last attempt has failed.
init_except_keeping(c) ==
    /\ init_call' = IF c.attempt < c.max_retries - 1
                    THEN [c EXCEPT !.pc = "sleep"]
                    ELSE [c EXCEPT !.pc = "returned", !.result = "False"]
    /\ UNCHANGED <<engine, SessionLocal, _initialized>>

\* init_database, lines 55-65: the except block of one attempt
init_except(c) ==
    IF c.attempt < c.max_retries - 1
    THEN /\ init_call' = [c EXCEPT !.pc = "sleep"]
         /\ UNCHANGED <<engine, SessionLocal, _initialized>>
    ELSE /\ engine' = NoEngine
         /\ SessionLocal' = NoEngine
         /\ _initialized' = FALSE
         /\ init_call' = [c EXCEPT !.pc = "returned", !.result = "False"]

\* init_database, line 43: engine = create_engine(...), or create_engine raises
init_create ==
    /\ init_call.pc = "create"
    /\ \/ /\ engine' = init_call.created + 1
          /\ init_call' = [init_call EXCEPT !.pc = "test", !.created = @ + 1,
                                            !.attempts = @ + 1]
          /\ UNCHANGED <<SessionLocal, _initialized>>
       \/ init_except([init_call EXCEPT !.attempts = @ + 1])
    /\ UNCHANGED <<outside_database, DATABASE_URL, tested, health>>

\* init_database, lines 46-65: the connection test, and what follows it
init_test ==
    /\ init_call.pc = "test"
    /\ \/ /\ tested' = tested \cup {engine}
          /\ SessionLocal' = engine
          /\ _initialized' = TRUE
          /\ init_call' = [init_call EXCEPT !.pc = "returned", !.result = "True",
                                            !.succeeded = TRUE]
          /\ UNCHANGED engine
       \/ /\ init_except(init_call)
          /\ UNCHANGED tested
    /\ UNCHANGED <<outside_database, DATABASE_URL, health>>

\* init_database, lines 57-59 and 40: the sleep ends, the next attempt begins
init_sleep ==
    /\ init_call.pc = "sleep"
    /\ init_call' = [init_call EXCEPT !.pc = "create", !.attempt = @ + 1]
    /\ UNCHANGED <<outside_database, DATABASE_URL, engine, SessionLocal, _initialized, tested,
                   health>>

\* init_database has returned: the caller holds the result
init_return ==
    /\ init_call.pc = "returned"
    /\ init_call' = [init_call EXCEPT !.pc = "idle"]
    /\ UNCHANGED <<outside_database, DATABASE_URL, engine, SessionLocal, _initialized, tested,
                   health>>

init_database == init_begin \/ init_create \/ init_test \/ init_sleep \/ init_return

\* main.py, lines 190-212: the health check reads database.engine and, when it
\* is not None, runs SELECT 1 on it
health_check ==
    /\ \E ok \in BOOLEAN :
           health' = [status |-> IF engine = NoEngine THEN "disconnected"
                                 ELSE IF ok THEN "connected" ELSE "error",
                      engine |-> engine,
                      wasTested |-> engine \in tested]
    /\ UNCHANGED <<outside_database, DATABASE_URL, engine, SessionLocal, _initialized,
                   init_call, tested>>

\* ------------------------------------------------------------------ chat
\* the users and messages get_bot_response is called with
UserIds == {1, 2}
HowAreYou == <<"H","o","w"," "," ","a","r","e"," ","y","o","u","?">>
Pricing == <<"p","r","i","c","i","n","g">>
UserMessages == {HowAreYou, Pricing}
ModelReply == <<"o","k">>
\* the number of entries up to which a user's history is followed
MaxHistory == 4

Digits == {"0","1","2","3","4","5","6","7","8","9"}
LowerSet == {LowerChars[i] : i \in 1..26}

\* re.sub(r"\s+", " ", s): every run of whitespace becomes one space
RECURSIVE collapse_spaces(_)
collapse_spaces(s) ==
    IF s = <<>> THEN <<>>
    ELSE IF Head(s) \in Whitespace
    THEN IF Len(s) > 1 /\ s[2] \in Whitespace
         THEN collapse_spaces(Tail(s))
         ELSE <<" ">> \o collapse_spaces(Tail(s))
    ELSE <<Head(s)>> \o collapse_spaces(Tail(s))

\* _normalize_text(s), lines 86-92
normalize_text(s) ==
    LET low  == lower(strip(s))
        kept == SelectSeq(low, LAMBDA c : c \in LowerSet \cup Digits \cup Whitespace)
    IN  collapse_spaces(kept)

\* static_responses, lines 81-83: the one key, and its reply
StaticKey == <<"h","o","w"," ","a","r","e"," ","y","o","u">>
StaticReply == <<"I"," ","a","m"," ","w","e","l","l">>
IsStatic == [m \in UserMessages |-> normalize_text(m) = StaticKey]

\* chat_histories[user_id], [] when the key is new (lines 101-102)
history_of(user_id) ==
    IF user_id \in DOMAIN chat_histories THEN chat_histories[user_id] ELSE <<>>

user_entry(message) == [role |-> "user", parts |-> message]
model_entry(reply) == [role |-> "model", parts |-> reply]

\* What get_bot_response leaves in the user's history: both entries when the
\* reply is there, the user's entry alone when generate_content raised.
entries_added(message, raised) ==
    IF IsStatic[message]
    THEN <<user_entry(message), model_entry(StaticReply)>>
    ELSE IF raised
    THEN <<user_entry(message)>>
    ELSE <<user_entry(message), model_entry(ModelReply)>>

\* get_bot_response(user_message, user_id), lines 95-141
get_bot_response ==
    /\ \E user_id \in UserIds, message \in UserMessages, raised \in BOOLEAN :
           /\ Len(history_of(user_id)) + 2 <= MaxHistory
           /\ chat_histories' =
                  [u \in DOMAIN chat_histories \cup {user_id} |->
                      IF u = user_id
                      THEN history_of(user_id) \o entries_added(message, raised)
                      ELSE chat_histories[u]]
           /\ bot_call' = [user_id |-> user_id, message |-> message,
                           raised |-> raised /\ ~IsStatic[message]]
    /\ UNCHANGED outside_chat

\* ----------------------------------------------------------------- crawl
\* URLs are texts; "h" stands for the scheme and host of the site, "x" for
\* another host.
BaseUrl == <<"h","/">>
\* The hrefs a page of the site may carry, joined with the page's URL.
Hrefs ==
    { <<"h","/">>,
      <<"h","/","a">>,
      <<"h","/","a","/">>,
      <<"h","/","a","#","x">>,
      <<"h","/","b","?","q">>,
      <<"x","/","a">> }
\* the values of max_pages a crawl is followed with
MaxPagesChoices == 0..3
\* the crawl calls followed
MaxCrawls == 2

\* s.split(c)[0]
RECURSIVE before_char(_, _)
before_char(s, c) ==
    IF s = <<>> \/ Head(s) = c THEN <<>>
    ELSE <<Head(s)>> \o before_char(Tail(s), c)

\* s.rstrip("/")
RECURSIVE rstrip_slash(_)
rstrip_slash(s) ==
    IF s # <<>> /\ s[Len(s)] = "/" THEN rstrip_slash(SubSeq(s, 1, Len(s) - 1)) ELSE s

\* get_all_links, line 73: full_url.split('#')[0].split('?')[0]
strip_fragment_query(url) == before_char(before_char(url, "#"), "?")

\* PrimisWebsiteScraper.clean_url, lines 17-19
clean_url(url) == rstrip_slash(strip_fragment_query(url))

\* is_valid_url: the URL is on the host of the site
is_valid_url(url) == url # <<>> /\ Head(url) = "h"

\* PrimisWebsiteScraper.extract_links, lines 66-76, on the hrefs of a page
extract_links(hrefs) == {clean_url(h) : h \in {g \in hrefs : is_valid_url(clean_url(g))}}

\* get_all_links, lines 56-81, on the hrefs of a page
get_all_links(hrefs) ==
    {strip_fragment_query(h) : h \in {g \in hrefs : is_valid_url(strip_fragment_query(g))}}

\* the orders in which a set may be iterated
Orderings(S) ==
    {o \in [1..Cardinality(S) -> S] : \A i, j \in 1..Cardinality(S) : o[i] = o[j] => i = j}

\* crawl(max_pages) of a scraper object, lines 117-121, and
\* crawl_website(start_url, max_pages), lines 83-89
crawl_begin ==
    /\ crawl_call.pc \in {"idle", "done"}
    /\ crawl_call.calls < MaxCrawls
    /\ \E which \in {"scraper", "ingest"}, max_pages \in MaxPagesChoices :
           /\ crawl_call.which \in {"none", which}
           /\ crawl_call' = [crawl_call EXCEPT
                                 !.pc = "running", !.which = which,
                                 !.max_pages = max_pages, !.calls = @ + 1,
                                 !.before = IF which = "scraper" THEN visited ELSE {}]
           /\ IF which = "scraper"
              THEN /\ queue' = <<rstrip_slash(BaseUrl)>>
                   /\ UNCHANGED <<visited, pages, to_visit>>
              ELSE /\ to_visit' = {BaseUrl}
                   /\ visited' = {}
                   /\ pages' = <<>>
                   /\ UNCHANGED queue
    /\ UNCHANGED outside_crawl

\* A variant of already_visited that never finds the URL.
never_visited(url) == FALSE

\* `if url in self.visited` (scraper.py:127), `if url in visited` (rag_ingest.py:93)
already_visited(url) == url \in visited

\* a request for url is sent: the call keeps whether url was visited by then
fetching(url) == [crawl_call EXCEPT !.refetched = @ \/ url \in visited]

\* PrimisWebsiteScraper.crawl, lines 123-180: one pass of the loop
scraper_iteration ==
    /\ crawl_call.pc = "running" /\ crawl_call.which = "scraper"
    /\ queue # <<>> /\ Cardinality(visited) < crawl_call.max_pages
    /\ LET url  == clean_url(Head(queue))
           rest == Tail(queue)
       IN  IF already_visited(url)
           THEN /\ queue' = rest
                /\ UNCHANGED <<visited, pages, crawl_call>>
           ELSE /\ crawl_call' = fetching(url)
                /\ \E outcome \in {"fail", "raise", "short", "long"} :
                       IF outcome = "fail"
                       THEN /\ queue' = rest
                            /\ UNCHANGED <<visited, pages>>
                       ELSE /\ visited' = visited \cup {url}
                            /\ pages' = IF outcome = "long" THEN Append(pages, url)
                                        ELSE pages
                            /\ IF outcome = "raise"
                               THEN queue' = rest
                               ELSE \E hrefs \in SUBSET Hrefs :
                                        LET new == {l \in extract_links(hrefs) :
                                                       /\ l \notin visited \cup {url}
                                                       /\ \A i \in 1..Len(rest) : rest[i] # l}
                                        IN  \E o \in Orderings(new) : queue' = rest \o o
    /\ UNCHANGED <<outside_crawl, to_visit>>

\* crawl_website, lines 91-111: one pass of the loop
ingest_iteration ==
    /\ crawl_call.pc = "running" /\ crawl_call.which = "ingest"
    /\ to_visit # {} /\ Cardinality(visited) < crawl_call.max_pages
    /\ \E url \in to_visit :
           LET rest == to_visit \ {url}
           IN  IF already_visited(url)
               THEN /\ to_visit' = rest
                    /\ UNCHANGED <<visited, pages, crawl_call>>
               ELSE /\ crawl_call' = fetching(url)
                    /\ \E text \in {"fail", "short", "long"}, links_ok \in BOOLEAN,
                          hrefs \in SUBSET Hrefs :
                           /\ pages' = IF text = "long" THEN Append(pages, url) ELSE pages
                           /\ to_visit' = rest \cup
                                            ((IF links_ok THEN get_all_links(hrefs) ELSE {})
                                                 \ visited)
                           /\ visited' = visited \cup {url}
    /\ UNCHANGED <<outside_crawl, queue>>

\* the loop condition is false: the crawl returns the pages
crawl_return ==
    /\ crawl_call.pc = "running"
    /\ \/ Cardinality(visited) >= crawl_call.max_pages
       \/ crawl_call.which = "scraper" /\ queue = <<>>
       \/ crawl_call.which = "ingest" /\ to_visit = {}
    /\ crawl_call' = [crawl_call EXCEPT !.pc = "done"]
    /\ UNCHANGED <<outside_crawl, visited, pages, queue, to_visit>>

crawl_loop == scraper_iteration \/ ingest_iteration \/ crawl_return

\* ---------------------------------------------------------- specification
Next ==
    \/ initialize_gemini
    \/ start_loading_vectorstore
    \/ \E t \in Threads : load_vectorstore(t)
    \/ get_answer

Spec == Init /\ [][Next]_vars

\* The loader while the website is ingested anew: the uploads of
\* rag_ingest.py run beside the loads of the serving process.
IngestNext ==
    \/ ingest_website
    \/ start_loading_vectorstore
    \/ \E t \in Threads : load_vectorstore(t)

IngestSpec == Init /\ [][IngestNext]_vars

\* The serving process with every similarity search of a comprehensive
\* retrieval as a step of its own, so that loads run between the searches.
RetrievalNext ==
    \/ initialize_gemini
    \/ start_loading_vectorstore
    \/ \E t \in Threads : load_vectorstore(t)
    \/ get_answer_stepwise

RetrievalSpec == Init /\ [][RetrievalNext]_vars

\* database.py from its import on, with the health check of main.py running
\* beside the init_database calls.
DatabaseNext ==
    \/ database_import
    \/ init_database
    \/ health_check

DatabaseSpec == Init /\ [][DatabaseNext]_vars

\* chat.py: get_bot_response called again and again.
ChatNext == get_bot_response

ChatSpec == Init /\ [][ChatNext]_vars

\* The crawl of scraper.py and the crawl of rag_ingest.py, on any pages.
CrawlNext ==
    \/ crawl_begin
    \/ crawl_loop

\* The crawl is a loop of one thread: it goes on while it can.
CrawlSpec == Init /\ [][CrawlNext]_vars /\ WF_vars(crawl_loop)

\* Every started loader thread keeps running (the operating system schedules it).
FairSpec == Spec /\ \A t \in Threads : WF_vars(load_vectorstore(t))

\* ----------------------------------------------------------------- claims
\* What a caller can tell of the loader from is_loading and db.
LoaderState ==
    IF is_loading THEN "Loading"
    ELSE IF db # NoIndex THEN "Ready"
    ELSE "Failed"

AnswerDone == req.pc = "done"
NoCalls == req.nSearch = 0 /\ req.nHist = 0 /\ req.nLLM = 0
Searched == req.dbUsed # NoIndex
NoDuplicateFingerprints(docs) ==
    \A i, j \in 1..Len(docs) :
        content_hash(docs[i]) = content_hash(docs[j]) => i = j

\* C1: single-flight: whatever the number of start_loading_vectorstore
\* calls, at no time are two load procedures in flight.
C1_SingleFlight == Cardinality(InFlight) <= 1

\* C2: a reader only ever searches an index whose own load procedure has
\* completed, validation included (the previous index or the new one).
C2_ReadersUseOnlyReadyIndex == Searched => req.usedReady

\* C3: stale-over-unavailable: when a load fails after some load has
\* declared ready, db is afterwards the index that load published.
C3_StaleOverUnavailable ==
    [][\A t \in Threads :
          (loader[t].pc \in InFlightPcs /\ loader'[t].pc = "failed" /\ published # NoIndex)
              => db' = published]_vars

\* C4: every started load procedure terminates: the thread ends ready or
\* failed, and the loader is then no longer Loading.
C4_LoadTerminates ==
    \A t \in Threads :
        (loader[t].pc \in InFlightPcs)
            ~> (loader[t].pc \in {"ready", "failed"} /\ ~is_loading)

C4_Witness ==
    \E t, u \in Threads :
        loader[t].pc = "failed" /\ loader[u].pc = "ready" /\ ~is_loading

\* C5: the loader is not Loading before start_loading_vectorstore is
\* called, and it is Loading exactly while a load procedure is in flight.
C5_LoaderStateMachine ==
    /\ Started = {} => LoaderState # "Loading"
    /\ LoaderState = "Loading" <=> InFlight # {}

\* C6: start_loading_vectorstore is a no-op in state Ready: no step taken
\* in state Ready starts a load procedure.
C6_StartLoadIdempotentWhenReady ==
    [][LoaderState = "Ready" => Started' = Started]_vars

\* C7: a call with a non-greeting question made while the loader is Loading
\* gets the still-loading reply, with no search, history read or model call.
C7_LoadingReply ==
    (AnswerDone /\ req.loadingAtCall /\ ~GreetingOf[req.question])
        => (req.result = "STILL_LOADING" /\ NoCalls)

C7_Witness ==
    /\ AnswerDone /\ req.loadingAtCall /\ ~GreetingOf[req.question]
    /\ req.session_id # None
    /\ InFlight # {}

\* C8: a greeting gets the canned greeting in every loader state, with no
\* search, history read or model call.
C8_GreetingReply ==
    (req.pc # "idle" /\ GreetingOf[req.question])
        => (AnswerDone /\ req.result = "GREETING" /\ NoCalls)

C8_Witness ==
    /\ AnswerDone /\ GreetingOf[req.question]
    /\ LoaderState = "Ready" /\ gemini_client # None
    /\ req.session_id # None

C10_ListQueryMultiSearch ==
    (Searched /\ ~index[req.dbUsed].broken /\ ListQueryOf[req.question])
        => (req.nSearch > 1 /\ NoDuplicateFingerprints(req.docs))

\* C11: when the history read for the call is empty, the rewrite step makes
\* no model call and the query handed to retrieval is the question asked.
C11_EmptyHistoryIdentity ==
    (req.pc = "search" /\ get_recent_messages(chats, req.session_id, HISTORY_LIMIT) = <<>>)
        => (req.search_query = req.question /\ req.nLLM = 0)

C11_Witness ==
    /\ req.pc = "search" /\ req.session_id # None /\ req.nHist = 1
    /\ chats # <<>>
    /\ get_recent_messages(chats, req.session_id, HISTORY_LIMIT) = <<>>

\* C12: the context placed in the synthesis prompt is never longer than
\* the character budget, whatever the chunks retrieval returned.
C12_ContextWithinBudget ==
    (req.pc \in {"generate", "done"}) => (req.context <= ContextBudget)

\* C13: when the similarity search or the model call raises, get_answer
\* returns one of its two fixed fallback texts, and that text does not
\* contain the text of the exception.
C13_NoFailurePropagates ==
    (AnswerDone /\ req.error # <<>>)
        => /\ req.result \in {"NETWORK_ISSUE", "GENERIC_ERROR"}
           /\ req.fallback = FallbackText[req.result]
           /\ ~Contains(req.fallback, req.error)

C13_Witness ==
    /\ AnswerDone /\ req.nLLM = 1
    /\ req.error \in ErrorMessages /\ is_network_error(req.error)

\* The texts of get_answer that word the three classes named: still
\* loading (line 251), could not find (lines 290-294), and the apology for
\* not being able to process the request (lines 380-383).
ThreeMessages == {STILL_LOADING_REPLY, NOT_FOUND_REPLY, GENERIC_ERROR_REPLY}

\* C14: whatever the failure condition, a call that returns neither the
\* greeting nor an answer returns one of three messages: still
\* initializing, could not find, unable to generate a response.
C14_ThreeFailureMessages ==
    (AnswerDone /\ req.result \in FallbackResults) => (req.fallback \in ThreeMessages)

\* C15: every index a load publishes has as many vectors as its chunk
\* table has chunks, also while the two blobs are being replaced one after
\* the other by an upload.
C15_PublishedIndexConsistent ==
    published # NoIndex
        => index[published].ntotal = Len(index[published].chunks)

\* What a reader of rag_engine's globals can tell of the loader: its state,
\* and no error text (the except branch logs str(e) and keeps nothing).
LoaderStatus == [state |-> LoaderState, lastError |-> None]

\* C16: a load procedure that fails leaves the loader in state Failed with
\* the error message captured, both readable from the loader's status.
C16_FailureCaptured ==
    [][\A t \in Threads :
          (loader[t].pc \in InFlightPcs /\ loader'[t].pc = "failed")
              => (LoaderStatus'.state = "Failed" /\ LoaderStatus'.lastError # None)]_vars

\* the turns of a session, oldest first, capped at the most recent `limit`
RecentTurns(table, session_id, limit) ==
    LastN(SelectSeq(table, LAMBDA r : r.session_id = session_id), limit)

\* C17: the history read of a call returns the most recent turns of its
\* session, at most HISTORY_LIMIT of them, oldest first (none for a session
\* without turns).
C17_RecentTurnsOfSession ==
    (req.pc = "search" /\ req.nHist = 1)
        => get_recent_messages(chats, req.session_id, HISTORY_LIMIT)
               = RecentTurns(chats, req.session_id, HISTORY_LIMIT)

\* C18: a download that leaves a zero-byte or truncated file is a failed
\* download: the load does not go on to the next step with that file.
C18_PartialDownloadFails ==
    [][\A t \in Threads :
          (/\ loader[t].pc \in DownloadPcs
           /\ loader'[t].pc # loader[t].pc
           /\ files'[file_of(loader[t].pc)] = Partial)
              => loader'[t].pc \notin InFlightPcs]_vars

\* C19: a load whose remote fetch fails does not end Failed from there: it
\* goes on to read the local bundled copy, and fails only if that fails too.
C19_LocalFallback ==
    [][\A t \in Threads :
          loader[t].pc \in DownloadPcs => loader'[t].pc # "failed"]_vars

\* the download_file calls a load has made for the file it is fetching
attempts_for_file(l, pc) == l.fetches - (IF pc = "download1" THEN 0 ELSE 1)

\* C20: a load gives up a remote fetch only after MaxAttempts attempts at
\* the file, and never makes more than MaxAttempts attempts at one file.
C20_RemoteRetry ==
    [][\A t \in Threads :
          (loader[t].pc \in DownloadPcs /\ loader'[t].pc # loader[t].pc)
              => /\ attempts_for_file(loader'[t], loader[t].pc) <= MaxAttempts
                 /\ loader'[t].pc = "failed"
                        => attempts_for_file(loader'[t], loader[t].pc) = MaxAttempts]_vars

\* C21: Failed is not absorbing: a start_loading_vectorstore call made in
\* state Failed puts the loader in state Loading, which get_answer then
\* sees as the still-loading condition.
C21_RetryFromFailed ==
    [][(LoaderState = "Failed" /\ Started' # Started)
           => LoaderState' = "Loading"]_vars

\* C22: a call with a non-greeting question, made when every load so far
\* has failed (so that none ever published an index), gets the trouble
\* accessing the knowledge base reply, with no search and no model call.
C22_FailedReply ==
    (AnswerDone /\ req.failedAtCall /\ ~GreetingOf[req.question])
        => (req.result = "KB_TROUBLE" /\ req.nSearch = 0 /\ req.nLLM = 0)

\* C23: a get_answer call changes no shared state: every step of a call
\* leaves the loader, db and the published index, the model client, the
\* chats table and the stored files as they were.
C23_AnswerChangesNoSharedState ==
    [][req' # req
          => UNCHANGED <<db, is_loading, gemini_client, loader, index, published,
                         chats, store>>]_vars

C23_Witness ==
    /\ AnswerDone /\ req.result = "ANSWER"
    /\ req.nHist = 1 /\ req.nSearch > 1 /\ req.nLLM = 1
    /\ published # NoIndex /\ chats # <<>>
    /\ \E t \in Threads : loader[t].pc \in InFlightPcs

\* C24: rewriting is best effort.  With a history to rewrite from, a model
\* call that raises or returns only blanks leaves the question as the
\* retrieval query; and a call whose history read failed goes on to
\* retrieval with the question as asked, no failure recorded.
C24_RewriteBestEffort ==
    /\ \A q \in Questions, out \in LLMOutcomes :
           (out.kind = "raise" \/ strip(out.text) = <<>>)
               => rewrite_step(chats, q, out) = [query |-> q, calls |-> 1]
    /\ (req.nHist = 1 /\ req.pc \in {"search", "generate", "done"})
           => req.search_query = req.question
    /\ (req.nHist = 1 /\ req.pc \in {"search", "generate"}) => req.error = <<>>

C24_Witness ==
    /\ AnswerDone /\ req.result = "ANSWER" /\ req.answer # <<>>
    /\ req.nHist = 1 /\ req.session_id # None
    /\ get_recent_messages(chats, req.session_id, HISTORY_LIMIT) = <<>>
    /\ chats # <<>>

\* The documents of a list whose fingerprint no earlier document of the list
\* has, in the order of the list.
FirstSeen(docs) ==
    LET keep == {i \in 1..Len(docs) :
                    \A j \in 1..(i - 1) : content_hash(docs[j]) # content_hash(docs[i])}
    IN  [n \in 1..Cardinality(keep) |->
            docs[CHOOSE i \in keep : Cardinality({j \in keep : j < i}) = n - 1]]

\* The results of the primary search followed by those of each variant
\* search, in the order of the searches.
RECURSIVE VariantResults(_, _, _)
VariantResults(ix, searches, revs) ==
    IF searches = <<>> THEN <<>>
    ELSE similarity_search(ix, Head(searches), K_ADDITIONAL, Head(revs))
             \o VariantResults(ix, Tail(searches), Tail(revs))

AllResults(ix, query, k, revs) ==
    similarity_search(ix, query, k, Head(revs))
        \o VariantResults(ix, SearchesOf[query], Tail(revs))

\* C25: comprehensive retrieval returns the primary results followed by the
\* results of each variant search, every chunk whose fingerprint was seen
\* before removed: for the documents a call retrieved, and for any k.
C25_ComprehensiveMerge ==
    (Searched /\ ListQueryOf[req.question] /\ ~index[req.dbUsed].broken)
        => LET ix    == index[req.dbUsed]
               query == req.search_query
               R     == Rankings(1 + Len(SearchesOf[query]))
           IN  /\ \E revs \in R :
                      req.docs = FirstSeen(AllResults(ix, query, K_COMPREHENSIVE, revs))
               /\ \A k \in {1, 2, K_COMPREHENSIVE}, revs \in R :
                      get_comprehensive_docs(ix, query, k, revs).docs
                          = FirstSeen(AllResults(ix, query, k, revs))

C25_Witness ==
    /\ Searched /\ ListQueryOf[req.question] /\ ~index[req.dbUsed].broken
    /\ req.nSearch > 1
    /\ Len(index[req.dbUsed].chunks) = 3 /\ Len(req.docs) = 2

\* C26: for a question that is not a list query, retrieval is one
\* similarity search, with k = 6, smaller than the k = 15 of the primary
\* comprehensive search.
C26_StandardSearch ==
    (Searched /\ ~ListQueryOf[req.question])
        => /\ req.nSearch = 1
           /\ req.k = K_STANDARD
           /\ K_STANDARD < K_COMPREHENSIVE
           /\ Len(req.docs) <= K_STANDARD

C26_Witness ==
    /\ Searched /\ ~ListQueryOf[req.question]
    /\ req.pc = "generate" /\ Len(req.docs) = 3

C28_ReadyNeedsBothArtifacts ==
    \A t \in Threads :
        /\ loader[t].pc \in {"deserialize", "test", "ready"} => loader[t].got = FileNames
        /\ loader[t].got # FileNames
               => (index[t] = NoObject /\ db # t /\ published # t)

C28_Witness ==
    \E t, u \in Threads :
        /\ loader[t].pc = "failed" /\ loader[t].got = {"index.faiss"}
        /\ loader[u].pc = "ready" /\ loader[u].got = FileNames /\ published = u

\* C29: the synthesis step calls the language model exactly once and ends
\* the call whether the model answered or raised, the rewrite makes at
\* most one call whatever the history, and one get_answer call makes at
\* most two language-model calls.
C29_OneSynthesisCall ==
    /\ [](/\ req.nLLM <= 2
          /\ \A q \in Questions, out \in LLMOutcomes, h \in ChatTables :
                 rewrite_step(h, q, out).calls <= 1)
    /\ [][(req.pc = "generate" /\ req' # req)
              => (req'.pc = "done" /\ req'.nLLM = req.nLLM + 1)]_vars

C29_Witness ==
    /\ AnswerDone /\ req.nHist = 1 /\ req.nSearch >= 1 /\ req.nLLM = 1
    /\ req.error # <<>> /\ req.error # SearchErrorMessage
    /\ req.result \in {"NETWORK_ISSUE", "GENERIC_ERROR"}

\* C30: db, once assigned an index, is never None again, whatever loads
\* and get_answer calls follow; so it is not None in any state where an
\* index has been published.
C30_IndexNeverNullAgain ==
    /\ [](published # NoIndex => db # NoIndex)
    /\ [][db # NoIndex => db' # NoIndex]_vars

C30_Witness ==
    \E t, u \in Threads :
        /\ published = t /\ loader[t].pc = "ready" /\ t < u
        /\ loader[u].pc = "failed" /\ loader[u].got = FileNames
        /\ index[u] = NoObject
        /\ db = t
        /\ AnswerDone /\ req.dbUsed = t

\* C31: every similarity search of one comprehensive retrieval, the primary
\* one and each additional one, runs on the index object that db held when
\* the retrieval began, also when a load assigns db in between; the result
\* is the merge of the searches on that one object.
C31_OneIndexPerRetrieval ==
    /\ req.searched \subseteq {req.dbUsed}
    /\ Cardinality(req.searched) <= 1
    /\ (req.pc \in {"generate", "done"} /\ Searched /\ ListQueryOf[req.question]
            /\ ~index[req.dbUsed].broken)
           => \E revs \in Rankings(1 + Len(SearchesOf[req.search_query])) :
                  req.docs = FirstSeen(AllResults(index[req.dbUsed], req.search_query,
                                                  K_COMPREHENSIVE, revs))

C31_Witness ==
    /\ req.pc = "generate" /\ ListQueryOf[req.question]
    /\ req.nSearch > 1
    /\ Cardinality(req.dbSeen) = 2
    /\ req.searched = {req.dbUsed}
    /\ db # req.dbUsed /\ published = db

\* Texts on which is_greeting is compared with its description.
History == <<"h","i","s","t","o","r","y">>
HelloListServices ==
    <<"h","e","l","l","o",","," ","l","i","s","t"," ","y","o","u","r"," ",
      "s","e","r","v","i","c","e","s">>
HiListServices ==
    <<" ","H","i",","," ","l","i","s","t"," ","a","l","l"," ","s","e","r","v","i","c","e","s">>
GreetingSamples ==
    Questions \cup
    { History, HelloListServices, <<>>, <<" ">>,
      <<"H","E","L","L","O"," ">>,
      <<"h","i",",">>,
      <<"h","i","!">>,
      <<"h","i","t","h","e","r","e">>,
      <<"h","e","y"," ","y","o","u">>,
      <<"\t","G","o","o","d"," ","M","o","r","n","i","n","g","\n">>,
      <<"g","o","o","d"," ","m","o","r","n","i","n","g","s">>,
      <<"g","o","o","d">>,
      <<"o","h"," ","h","i">>,
      <<"h","e","l","l","o"," ","t","h","e","r","e",","," ","j","o","b","s","?">> }

\* A text equals a greeting phrase, or continues it with a space or a comma.
GreetingPhrase(s) ==
    \E g \in {greetings[i] : i \in 1..Len(greetings)} :
        \/ s = g
        \/ /\ Len(s) > Len(g)
           /\ \A j \in 1..Len(g) : s[j] = g[j]
           /\ s[Len(g) + 1] \in {" ", ","}

\* is_greeting and its description, compared once on every sample
GreetingAgrees ==
    [q \in GreetingSamples |-> is_greeting(q) <=> GreetingPhrase(strip(lower(q)))]
GreetingCases == [q \in {History, HelloListServices} |-> is_greeting(q)]

\* C32: is_greeting(q) holds exactly when q, lower-cased and stripped, is a
\* greeting phrase or begins with one followed by a space or a comma:
\* "history" is no greeting, "hello, list your services" is one, and a
\* list question behind a greeting gets the greeting reply with no search
\* and no model call.
C32_GreetingExactly ==
    /\ \A q \in GreetingSamples : GreetingAgrees[q]
    /\ ~GreetingCases[History]
    /\ GreetingCases[HelloListServices]
    /\ (req.pc # "idle" /\ req.question = HiListServices)
           => (AnswerDone /\ req.result = "GREETING" /\ NoCalls)

C32_Witness ==
    /\ AnswerDone /\ req.question = HiListServices
    /\ ListQueryOf[req.question]
    /\ req.result = "GREETING"
    /\ LoaderState = "Ready" /\ gemini_client # None /\ ~index[db].broken

InitReturned == init_call.pc = "returned"

\* C33: an init_database call makes at most max_retries attempts; it
\* returns True when an attempt succeeded and only then, unless it found
\* the module initialised and made no attempt at all; after True the
\* engine and the session factory are set and _initialized is true, after
\* False the three are None, None and false.
C33_InitDatabaseResult ==
    InitReturned =>
        /\ init_call.attempts <= init_call.max_retries
        /\ init_call.succeeded => init_call.result = "True"
        /\ init_call.result = "True" => (init_call.succeeded \/ init_call.wasInitialized)
        /\ init_call.wasInitialized => (init_call.attempts = 0 /\ init_call.result = "True")
        /\ init_call.result = "True"
               => (engine # NoEngine /\ SessionLocal = engine /\ _initialized)
        /\ init_call.result = "False"
               => (engine = NoEngine /\ SessionLocal = NoEngine /\ ~_initialized)

C33_Witness ==
    /\ InitReturned /\ init_call.result = "False"
    /\ init_call.attempts = DEFAULT_MAX_RETRIES
    /\ init_call.created > 0
    /\ init_call.calls > 1

\* C34: database.engine is not None only when the connection test of that
\* engine has succeeded, in every state and in every state a health check
\* reads it.
C34_EngineTestedWhenSet ==
    /\ engine # NoEngine => engine \in tested
    /\ health.engine # NoEngine => health.wasTested

\* the entries of a history alternate user, model, user, model, ...
Alternates(h) ==
    /\ Len(h) % 2 = 0
    /\ \A i \in 1..Len(h) : h[i].role = IF i % 2 = 1 THEN "user" ELSE "model"

\* C35: after any get_bot_response calls, also calls whose model call
\* raised, every user's history alternates user and model entries and has
\* even length.
C35_HistoryAlternates ==
    \A u \in DOMAIN chat_histories : Alternates(chat_histories[u])

\* C36: an upload_file call that returned False has left the blob it found
\* at the path in place.
C36_FailedUploadKeepsBlob ==
    \A f \in FileNames :
        (uploads[f].result = "False" /\ uploads[f].before # Absent)
            => bucket[f] = uploads[f].before

\* no URL has two page records
OneRecordPerUrl == \A i, j \in 1..Len(pages) : pages[i] = pages[j] => i = j

\* C37: whatever links the pages carry and whichever fetches fail, a crawl
\* that has begun returns; the visited set never holds more than max_pages
\* URLs, no request is sent for a URL that is in the visited set, and no
\* URL has two page records.
C37_CrawlBounded ==
    /\ [](/\ Cardinality(visited \ crawl_call.before) <= crawl_call.max_pages
          /\ ~crawl_call.refetched
          /\ OneRecordPerUrl)
    /\ (crawl_call.pc = "running") ~> (crawl_call.pc = "done")

C37_Witness ==
    /\ crawl_call.pc = "done" /\ crawl_call.which = "scraper"
    /\ crawl_call.max_pages = 2 /\ Cardinality(visited \ crawl_call.before) = 2
    /\ queue # <<>>
    /\ Len(pages) = 1

====
